---- MODULE Spec2Model ----
(***************************************************************************)
(* flac2mp3: the concurrent transcode pipeline of src/flac2mp3.py.         *)
(*                                                                         *)
(* The coordinator (__main__) checks the required programs, ensures the    *)
(* output directory, enumerates the files and hands them to a worker pool  *)
(* (pool.map_async); every worker runs transcode_with_logging on one file  *)
(* at a time.  The model follows one run of the program: the coordinator's *)
(* position, every file's position inside transcode_with_logging /         *)
(* transcode, the files and directories on disk, the temporary files and   *)
(* the lines written to the log.                                           *)
(*                                                                         *)
(* A path is a sequence of one-character strings, "/" separating the       *)
(* components, so that the path functions of the program (splitext,        *)
(* dirname, commonprefix, replace, strip, join) are computed as the code   *)
(* computes them.                                                          *)
(***************************************************************************)
EXTENDS Integers, Sequences, FiniteSets, TLC

VARIABLES
    pl,          \* the decode-to-encode pipeline of one transcode, in detail
    run,         \* "first", or "second" when the program was started again
    prev,        \* in the second run: how the first run ended
    args,        \* the parsed arguments: output_dir, skip_existing, copy_pattern
    files,       \* the set of enumerated source files (numbers of Candidates)
    common_prefix, \* __main__'s common_prefix of the enumerated paths
    fs,          \* path -> content of the regular file at that path
    dirs,        \* the directories that exist
    main,        \* the coordinator's position in __main__
    pc,          \* file -> position of its task in the pool / in the worker
    tmp,         \* file -> content of the task's NamedTemporaryFile
    retval,      \* file -> return code of lame seen by the task (None before)
    log,         \* file -> sequence of outcome lines logged for that file
    mainlog,     \* sequence of lines logged by the coordinator
    succeeded,   \* __main__'s flag
    terminated,  \* __main__'s flag
    exitCode,    \* the argument of sys.exit, None while running
    launched,    \* the files for which a decoder/encoder pair was launched
    published    \* the files whose task linked its temp file to the destination

vars == <<pl, run, prev, args, files, common_prefix, fs, dirs, main, pc, tmp, retval, log, mainlog,
          succeeded, terminated, exitCode, launched, published>>

\* Python's None.  An optional path or pattern is None or a sequence of
\* characters, an optional return or exit code is None or Code(n).
None == <<>>
Code(n) == <<n>>

----------------------------------------------------------------------------
(* Bounds of the model *)

\* the number of source files the run can find
MaxFiles == 3
\* --num-threads: the number of worker processes of the pool
NumThreads == 2
\* at most this many destination paths hold a file before the run
MaxPrior == 1
\* the number of source files of a batch that is run a second time
MaxRerunFiles == 2
\* the number of blocks the pipe between flac and lame holds
PipeSize == 2
\* the largest number of blocks flac has to write
MaxData == 3

----------------------------------------------------------------------------
(* Paths: strings as sequences of characters *)

Max(S) == CHOOSE x \in S : \A y \in S : y <= x

\* str.rfind(c): the last index of c in s, 0 when absent (Python's -1)
RFind(s, c) == Max({0} \cup {i \in 1..Len(s) : s[i] = c})

\* s[:n] of Python, for 0 <= n
Take(s, n) == SubSeq(s, 1, IF n < Len(s) THEN n ELSE Len(s))

\* s[n:] of Python, for 0 <= n (n counts the dropped characters)
Drop(s, n) == SubSeq(s, n + 1, Len(s))

\* s.startswith(p) at offset i (1-based)
MatchAt(s, p, i) ==
    /\ i + Len(p) - 1 <= Len(s)
    /\ \A k \in 1..Len(p) : s[i + k - 1] = p[k]

\* s.rstrip('/')
RECURSIVE RStripSlash(_)
RStripSlash(s) ==
    IF s # <<>> /\ s[Len(s)] = "/" THEN RStripSlash(Take(s, Len(s) - 1)) ELSE s

\* s.lstrip('/')
RECURSIVE LStripSlash(_)
LStripSlash(s) ==
    IF s # <<>> /\ s[1] = "/" THEN LStripSlash(Tail(s)) ELSE s

\* s.strip('/')
StripSlash(s) == LStripSlash(RStripSlash(s))

\* s.replace(old, ''): every non-overlapping occurrence, left to right
RECURSIVE Remove(_, _)
Remove(s, old) ==
    IF old = <<>> \/ s = <<>> THEN s
    ELSE IF MatchAt(s, old, 1) THEN Remove(Drop(s, Len(old)), old)
    ELSE <<s[1]>> \o Remove(Tail(s), old)

\* os.path.dirname
dirname(p) ==
    LET head == Take(p, RFind(p, "/"))
    IN  IF head # <<>> /\ \E i \in 1..Len(head) : head[i] # "/"
        THEN RStripSlash(head) ELSE head

\* os.path.splitext(p)[0]: the extension starts at the last dot of the last
\* component, unless only dots precede it there
SplitextRoot(p) ==
    LET sepIndex == RFind(p, "/")
        dotIndex == RFind(p, ".")
    IN  IF /\ dotIndex > sepIndex
           /\ \E k \in (sepIndex + 1)..(dotIndex - 1) : p[k] # "."
        THEN Take(p, dotIndex - 1) ELSE p

\* os.path.join(a, b)
join(a, b) ==
    IF b # <<>> /\ b[1] = "/" THEN b
    ELSE IF a = <<>> \/ a[Len(a)] = "/" THEN a \o b
    ELSE a \o <<"/">> \o b

\* os.path.commonprefix: the longest common leading character sequence
commonprefix(S) ==
    IF S = {} THEN <<>>
    ELSE LET s1 == CHOOSE s \in S : \A t \in S : Len(s) <= Len(t)
             n  == Max({k \in 0..Len(s1) :
                          \A t \in S : \A i \in 1..k : t[i] = s1[i]})
         IN  Take(s1, n)

MP3 == <<".", "m", "p", "3">>

\* change_file_ext(fname, ext)
change_file_ext(fname, ext) == SplitextRoot(fname) \o ext

\* the bad_chars loop of transcode: outfile.replace(c, '') for c in ':'
BadChars == {":"}
Sanitize(p) == SelectSeq(p, LAMBDA c : c \notin BadChars)


----------------------------------------------------------------------------
(* The environment: the files the run can find, and what they are *)

F1 == <<"/", "m", "/", "c", "/", "b", ".", "f">>
F2 == <<"/", "m", "/", "c", ":", "/", "b", ".", "f">>
F3 == <<"/", "m", "/", "n", ".", "t">>
F4 == <<"/", "m", "/", "a", ".", "f">>

\* the source files of the environment, as many as the bound admits; a file
\* is known by its number in Candidates
Candidates == <<F1, F2, F3, F4>>
Universe == 1..MaxFiles
Source(f) == Candidates[f]

OutDir  == <<"/", "o">>
Pattern == <<".", "t">>

\* get_filetype(fname): the MIME type reported by file(1)
get_filetype(fname) ==
    IF fname \in {F1, F2, F4} THEN "audio/flac" ELSE "text/plain"

\* pattern.search(fname) for the pattern '\.t$'
PatternMatches(pattern, fname) ==
    /\ Len(fname) >= Len(pattern)
    /\ MatchAt(fname, pattern, Len(fname) - Len(pattern) + 1)

\* d with all its parent directories (what os.makedirs(d) brings about)
RECURSIVE Ancestors(_)
Ancestors(d) ==
    IF d = <<>> \/ dirname(d) = d THEN {d} ELSE {d} \cup Ancestors(dirname(d))

----------------------------------------------------------------------------
(* Values derived by __main__ and by the worker *)

\* os.path.dirname(os.path.commonprefix(list(files)))
CommonPrefix(S) == dirname(commonprefix({Source(f) : f \in S}))

\* transcode_with_logging: the outfile handed to transcode
Outfile(fname, output_dir, prefix) ==
    IF output_dir = None THEN None
    ELSE join(output_dir, StripSlash(Remove(change_file_ext(fname, MP3), prefix)))

\* transcode: outfile after defaulting, before the bad characters are removed
DefaultOutfile(infile, outfile) ==
    IF outfile = None THEN change_file_ext(infile, MP3) ELSE outfile

\* transcode: the destination path, with the bad characters removed
Target(infile, outfile) == Sanitize(DefaultOutfile(infile, outfile))

\* transcode_with_logging: the destination of a copied non-FLAC file
CopyDest(fname, output_dir, prefix) ==
    join(output_dir, StripSlash(Remove(fname, prefix)))

\* the paths of one file: outfile and the directory made for it (lines
\* 294-302), the destination before and after the bad characters are removed
\* and the directory of its temp file (lines 93-110), the destination of its
\* copy and its directory (268-271)
PathsOf(fname, output_dir, prefix) ==
    LET outfile == Outfile(fname, output_dir, prefix)
    IN  [outfile  |-> outfile,
         outdir   |-> dirname(outfile),
         unsanitized |-> DefaultOutfile(fname, outfile),
         target   |-> Target(fname, outfile),
         tempdir  |-> dirname(Target(fname, outfile)),
         copydest |-> CopyDest(fname, output_dir, prefix),
         copydir  |-> dirname(CopyDest(fname, output_dir, prefix))]

\* the function t, its values computed once (comparing a function makes TLC
\* enumerate it and keep the result)
Tabulated(t) == IF t = t THEN t ELSE t

\* the paths of every file of every run: they depend on the enumerated files
\* and on args.output_dir only
Derived ==
    Tabulated([S \in SUBSET Universe \ {{}} |->
        [output_dir \in {None, OutDir} |->
            [f \in S |-> PathsOf(Source(f), output_dir, CommonPrefix(S))]]])

\* the paths of file f in this run
path(f) == Derived[files][args.output_dir][f]

IsFlac(f) == get_filetype(Source(f)) = "audio/flac"

----------------------------------------------------------------------------
(* The file system *)

\* the paths at which the run may find or create a regular file
Paths ==
    {path(f).target : f \in {g \in files : IsFlac(g)}}
    \cup {path(f).copydest : f \in {g \in files :
                                      ~IsFlac(g) /\ args.output_dir # None}}

\* os.path.exists(p)
exists(p) == (p \in DOMAIN fs /\ fs[p] # "none") \/ p \in dirs

\* ensure_directory(d, ignore_errors): os.makedirs(d) creates d with its
\* parents and ensure_directory returns True; errno 17 (d exists) gives False;
\* any other OSError is raised, or gives False under ignore_errors
ensure_directory(d, ignore_errors, result) ==
    \/ /\ d \notin dirs
       /\ dirs' = dirs \cup Ancestors(d)
       /\ result = "True"
    \/ /\ d \in dirs
       /\ dirs' = dirs
       /\ result = "False"
    \/ /\ d \notin dirs
       /\ dirs' = dirs
       /\ result = IF ignore_errors THEN "False" ELSE "raise"

----------------------------------------------------------------------------
(* Init: the program has parsed its arguments *)

\* no pipeline has been set up
PipelineIdle ==
    [task |-> "idle", flac |-> "none", lame |-> "none", rcFlac |-> None,
     rcLame |-> None, readers |-> {}, buffer |-> 0, todo |-> 0,
     encoded |-> 0, retval |-> None]

Init ==
    /\ pl = PipelineIdle
    /\ run = "first"
    /\ prev = None
    /\ args \in [output_dir : {None, OutDir}, skip_existing : BOOLEAN,
                 copy_pattern : {None, Pattern}]
    /\ files \in SUBSET Universe \ {{}}
    /\ common_prefix = CommonPrefix(files)
    /\ fs \in {g \in [Paths -> {"none", "old"}] :
                 Cardinality({p \in Paths : g[p] = "old"}) <= MaxPrior}
    /\ dirs = UNION {Ancestors(dirname(Source(f))) : f \in files}
              \cup UNION {Ancestors(dirname(p)) : p \in {q \in Paths : fs[q] = "old"}}
    /\ main = "programs"
    /\ pc = [f \in files |-> "found"]
    /\ tmp = [f \in files |-> "none"]
    /\ retval = [f \in files |-> None]
    /\ log = [f \in files |-> <<>>]
    /\ mainlog = <<>>
    /\ succeeded = FALSE
    /\ terminated = FALSE
    /\ exitCode = None
    /\ launched = {}
    /\ published = {}


----------------------------------------------------------------------------
(* The worker pool *)

\* the task of f is being executed by a worker process
Busy(f) == pc[f] \in {"copydir", "copy", "mkdir", "transcode", "mktemp",
                      "wait", "link", "close"}

\* the task of f has ended: it returned, or raised into the pool
Finished(f) == pc[f] \in {"done", "raised"}

\* the worker processes exist and take tasks
PoolAlive == main = "wait"

\* the exception of the task of f reaches the pool's worker loop, which stores
\* it in the map result; the worker is free for the next task
Raise(f) == pc' = [pc EXCEPT ![f] = "raised"]

\* the worker executing f returns from transcode_with_logging having logged line
Return(f, line) ==
    /\ pc' = [pc EXCEPT ![f] = "done"]
    /\ log' = [log EXCEPT ![f] = Append(@, line)]

----------------------------------------------------------------------------
(* transcode_with_logging *)

\* a faulty lines 265-267: the copy pattern is not consulted
ShouldCopyAnyName(f) == args.output_dir # None

\* the non-FLAC file is to be copied
ShouldCopy(f) ==
    /\ args.output_dir # None
    /\ args.copy_pattern # None
    /\ PatternMatches(args.copy_pattern, Source(f))

\* a free worker takes the next task of the map from the pool's queue and
\* enters transcode_with_logging; lines 261-291: the file type decides between
\* copy, skip and transcode
Dispatch(f) ==
    /\ pc[f] = "queued"
    /\ PoolAlive
    /\ Cardinality({g \in files : Busy(g)}) < NumThreads
    /\ IF get_filetype(Source(f)) # "audio/flac"
       THEN IF ShouldCopy(f)
            THEN pc' = [pc EXCEPT ![f] = "copydir"] /\ log' = log
            ELSE Return(f, "Skipped")
       ELSE /\ pc' = [pc EXCEPT ![f] = IF args.output_dir # None
                                       THEN "mkdir" ELSE "transcode"]
            /\ log' = log
    /\ UNCHANGED <<pl, run, prev, args, files, common_prefix, fs, dirs, main, tmp, retval,
                   mainlog, succeeded, terminated, exitCode, launched,
                   published>>

\* lines 275-280: the except clause of the copy branch logs the failure using
\* e.message; under Python 3 exceptions have no such attribute and evaluating
\* it raises AttributeError out of the handler
CopyFailed(f) ==
    \/ Return(f, "Failed to copy")
    \/ Raise(f) /\ log' = log

\* lines 268-271: ensure the directory of the copy's destination
CopyEnsureDirectory(f) ==
    /\ pc[f] = "copydir"
    /\ PoolAlive
    /\ \E result \in {"True", "False", "raise"} :
         /\ ensure_directory(path(f).copydir, FALSE, result)
         /\ IF result = "raise" THEN CopyFailed(f)
            ELSE pc' = [pc EXCEPT ![f] = "copy"] /\ log' = log
    /\ UNCHANGED <<pl, run, prev, args, files, common_prefix, fs, main, tmp, retval,
                   mainlog, succeeded, terminated, exitCode, launched,
                   published>>

\* lines 272-280: shutil.copy(f, dest) writes the destination in place; a
\* failure leaves it as it was (open failed) or cut short (write failed)
Copy(f) ==
    /\ pc[f] = "copy"
    /\ PoolAlive
    /\ \/ /\ path(f).copydir \in dirs
          /\ fs' = [fs EXCEPT ![path(f).copydest] = "copy"]
          /\ Return(f, "Copied")
       \/ /\ fs' \in {fs, [fs EXCEPT ![path(f).copydest] = "part"]}
          /\ CopyFailed(f)
    /\ UNCHANGED <<pl, run, prev, args, files, common_prefix, dirs, main, tmp, retval,
                   mainlog, succeeded, terminated, exitCode, launched,
                   published>>

\* lines 293-302: with an output directory, make the directory of outfile,
\* ignoring every error
EnsureOutfileDirectory(f) ==
    /\ pc[f] = "mkdir"
    /\ PoolAlive
    /\ \E result \in {"True", "False"} :
         ensure_directory(path(f).outdir, TRUE, result)
    /\ pc' = [pc EXCEPT ![f] = "transcode"]
    /\ UNCHANGED <<pl, run, prev, args, files, common_prefix, fs, main, tmp, retval, log,
                   mainlog, succeeded, terminated, exitCode, launched,
                   published>>

\* lines 308-316: the outcome line for a return code of transcode
OutcomeLine(retcode) ==
    IF retcode = Code(0) THEN "Transcoded"
    ELSE IF retcode = None THEN "Did not transcode"
    ELSE "Failed to transcode"

----------------------------------------------------------------------------
(* transcode *)

\* a faulty line 100: the existence test made on outfile before the bad
\* characters are removed from it
ShouldSkipUnsanitized(f) ==
    args.skip_existing /\ exists(path(f).unsanitized)

\* line 100: skip transcoding existing files if specified
ShouldSkip(f) == args.skip_existing /\ exists(path(f).target)

\* a faulty line 143: the temp file is never linked
ShouldLinkNever(rc) == FALSE

\* a faulty line 143: the temp file is linked whatever lame returned
ShouldLinkAlways(rc) == TRUE

\* line 143: if the transcode worked, link the temp file to the final filename
ShouldLink(rc) == rc = Code(0)

\* what a reader of the destination sees once the temp file is linked to it
Linked(content) == IF content = "full" THEN "enc" ELSE "part"

\* the with block is left by an exception: NamedTemporaryFile deletes the file
\* and the exception leaves transcode and transcode_with_logging
RaiseInWith(f) ==
    /\ tmp' = [tmp EXCEPT ![f] = "none"]
    /\ Raise(f)

\* lines 92-101: resolve and sanitize outfile; if it is to be skipped return
\* None, which transcode_with_logging logs (lines 305-313)
TranscodeEntry(f) ==
    /\ pc[f] = "transcode"
    /\ PoolAlive
    /\ IF ShouldSkip(f)
       THEN Return(f, OutcomeLine(retval[f]))
       ELSE pc' = [pc EXCEPT ![f] = "mktemp"] /\ log' = log
    /\ UNCHANGED <<pl, run, prev, args, files, common_prefix, fs, dirs, main, tmp, retval,
                   mainlog, succeeded, terminated, exitCode, launched,
                   published>>

\* lines 110-137: tempfile.NamedTemporaryFile(dir=dirname, suffix='.tmp')
\* raises OSError when the directory does not exist; inside the with block
\* get the tags, which may raise (metaflac's output is not UTF-8), launch flac
\* piped into lame, lame writing to the temp file, and close the task's end of
\* the pipe
Popen(f) ==
    /\ pc[f] = "mktemp"
    /\ PoolAlive
    /\ IF path(f).tempdir \in dirs
       THEN \/ /\ tmp' = [tmp EXCEPT ![f] = "empty"]
               /\ launched' = launched \cup {f}
               /\ pc' = [pc EXCEPT ![f] = "wait"]
            \/ /\ RaiseInWith(f)
               /\ launched' = launched
       ELSE /\ Raise(f)
            /\ UNCHANGED <<tmp, launched>>
    /\ UNCHANGED <<pl, run, prev, args, files, common_prefix, fs, dirs, main, retval, log,
                   mainlog, succeeded, terminated, exitCode, published>>

\* the lame process writes encoded data to its stdout, the temp file
LameWrite(f) ==
    /\ pc[f] = "wait"
    /\ PoolAlive
    /\ tmp[f] = "empty"
    /\ tmp' = [tmp EXCEPT ![f] = "part"]
    /\ UNCHANGED <<pl, run, prev, args, files, common_prefix, fs, dirs, main, pc, retval,
                   log, mainlog, succeeded, terminated, exitCode, launched,
                   published>>

\* line 140: lame exits and p_lame.wait() returns its code: 0 with the whole
\* encoding written, nonzero with the output as far as it got
LameWait(f) ==
    /\ pc[f] = "wait"
    /\ PoolAlive
    /\ \E rc \in {Code(0), Code(1)} :
         /\ retval' = [retval EXCEPT ![f] = rc]
         /\ tmp' = [tmp EXCEPT ![f] = IF rc = Code(0) THEN "full" ELSE @]
         /\ pc' = [pc EXCEPT ![f] = IF ShouldLink(rc) THEN "link" ELSE "close"]
    /\ UNCHANGED <<pl, run, prev, args, files, common_prefix, fs, dirs, main, log, mainlog,
                   succeeded, terminated, exitCode, launched, published>>

\* line 144: os.link(temp_outfile.name, outfile); raises OSError (errno 17)
\* when outfile exists
Link(f) ==
    /\ pc[f] = "link"
    /\ PoolAlive
    /\ IF exists(path(f).target)
       THEN /\ RaiseInWith(f)
            /\ UNCHANGED <<fs, published>>
       ELSE /\ fs' = [fs EXCEPT ![path(f).target] = Linked(tmp[f])]
            /\ published' = published \cup {f}
            /\ pc' = [pc EXCEPT ![f] = "close"]
            /\ tmp' = tmp
    /\ UNCHANGED <<pl, run, prev, args, files, common_prefix, dirs, main, retval, log,
                   mainlog, succeeded, terminated, exitCode, launched>>

\* lines 111, 146, 305-316: the with block ends, the temp file is deleted,
\* transcode returns retval and transcode_with_logging logs success or error
CloseTemp(f) ==
    /\ pc[f] = "close"
    /\ PoolAlive
    /\ tmp' = [tmp EXCEPT ![f] = "none"]
    /\ Return(f, OutcomeLine(retval[f]))
    /\ UNCHANGED <<pl, run, prev, args, files, common_prefix, fs, dirs, main, retval,
                   mainlog, succeeded, terminated, exitCode, launched,
                   published>>

----------------------------------------------------------------------------
(* __main__: the coordinator *)

\* a faulty exit status: the elif branch for terminated is missing
ExitStatusNoTerminated(succ, term) == IF succ THEN Code(0) ELSE Code(4)

\* lines 346-357: the exit status for the two flags
ExitStatus(succ, term) ==
    IF succ THEN Code(0) ELSE IF term THEN Code(3) ELSE Code(4)

\* the worker processes are terminated (pool.terminate(), or the pool's
\* finalizer when the interpreter exits): queued tasks are dropped and running
\* workers get SIGTERM, their local variables are gone.  A worker killed
\* inside the with block leaves its temp file behind ("left": lame, not killed
\* with the worker, may still be writing to it), unless the interrupt it
\* received itself (the terminal sends SIGINT to the whole process group)
\* unwound the block first.
TerminatePool ==
    /\ pc' = [f \in files |-> IF Busy(f) THEN "killed"
                              ELSE IF pc[f] = "queued" THEN "dropped"
                              ELSE pc[f]]
    /\ retval' = [f \in files |-> IF Busy(f) THEN None ELSE retval[f]]
    /\ \E unwound \in SUBSET {f \in files : Busy(f) /\ tmp[f] # "none"} :
         tmp' = [f \in files |-> IF Busy(f) /\ tmp[f] # "none"
                                 THEN IF f \in unwound THEN "none" ELSE "left"
                                 ELSE tmp[f]]

\* a faulty lines 233-235: the missing programs are logged and recorded but
\* the run goes on
CheckProgramsNoExit ==
    /\ main = "programs"
    /\ mainlog' = Append(mainlog, "programs are required")
    /\ exitCode' = Code(1)
    /\ main' = "outdir"
    /\ UNCHANGED <<pl, run, prev, args, files, common_prefix, fs, dirs, pc, tmp, retval, log,
                   succeeded, terminated, launched, published>>

\* lines 12-28, 231-235: a required program is missing (sp.call raised errno
\* 2), or all are present; sp.call only launches the program with no argument
CheckPrograms ==
    /\ main = "programs"
    /\ \/ /\ mainlog' = Append(mainlog, "programs are required")
          /\ exitCode' = Code(1)
          /\ main' = "exit"
       \/ /\ main' = "outdir"
          /\ UNCHANGED <<mainlog, exitCode>>
    /\ UNCHANGED <<pl, run, prev, args, files, common_prefix, fs, dirs, pc, tmp, retval, log,
                   succeeded, terminated, launched, published>>

\* lines 237-242: ensure the output directory; a failure is logged
EnsureOutputDirectory ==
    /\ main = "outdir"
    /\ IF args.output_dir # None
       THEN \E result \in {"True", "False", "raise"} :
              /\ ensure_directory(args.output_dir, FALSE, result)
              /\ mainlog' = IF result = "raise"
                            THEN Append(mainlog, "Couldn't create directory")
                            ELSE mainlog
       ELSE UNCHANGED <<dirs, mainlog>>
    /\ main' = "map"
    /\ UNCHANGED <<pl, run, prev, args, files, common_prefix, fs, pc, tmp, retval, log,
                   succeeded, terminated, exitCode, launched, published>>

\* lines 322-329: build the pool and submit every file with map_async
MapAsync ==
    /\ main = "map"
    /\ pc' = [f \in files |-> "queued"]
    /\ main' = "wait"
    /\ UNCHANGED <<pl, run, prev, args, files, common_prefix, fs, dirs, tmp, retval, log,
                   mainlog, succeeded, terminated, exitCode, launched,
                   published>>

\* a faulty map result: ready as soon as one task has returned
MapResultReadyAny == \E f \in files : pc[f] = "done"

\* line 333: the map result holds a value: every task has returned
MapResultReady == \A f \in files : pc[f] = "done"

\* lines 330-335, 346-350: result.get returns: every task has returned
GetResult ==
    /\ main = "wait"
    /\ MapResultReady
    /\ succeeded' = TRUE
    /\ exitCode' = ExitStatus(TRUE, terminated)
    /\ mainlog' = Append(mainlog, "Completed transcode")
    /\ main' = "exit"
    /\ UNCHANGED <<pl, run, prev, args, files, common_prefix, fs, dirs, pc, tmp, retval, log,
                   terminated, launched, published>>

\* lines 333, 342-344, 355-357: result.get raises the exception a task raised.
\* The map result is ready as soon as the exception is stored (Python 2, and
\* 3 before 3.8) or once every task has ended (3.8 and later), the latter
\* being one timing of the former.  The interpreter exits and the pool's
\* finalizer terminates the workers.
GetRaises ==
    /\ main = "wait"
    /\ \E f \in files : pc[f] = "raised"
    /\ exitCode' = ExitStatus(succeeded, terminated)
    /\ mainlog' = Append(mainlog, "Transcode failed")
    /\ TerminatePool
    /\ main' = "exit"
    /\ UNCHANGED <<pl, run, prev, args, files, common_prefix, fs, dirs, log, succeeded,
                   terminated, launched, published>>

\* a faulty handler: lines 340-341 are missing, the pool is left running
KeyboardInterruptNoTerminate ==
    /\ main = "wait"
    /\ terminated' = TRUE
    /\ UNCHANGED <<pl, run, prev, args, files, common_prefix, fs, dirs, main, pc,
                   tmp, retval, log, mainlog, succeeded, exitCode, launched,
                   published>>

\* lines 338-341, 351-354: the user interrupts the coordinator inside the try
\* block; the handler terminates and joins the pool
KeyboardInterrupt ==
    /\ main = "wait"
    /\ terminated' = TRUE
    /\ TerminatePool
    /\ exitCode' = ExitStatus(succeeded, TRUE)
    /\ mainlog' = Append(mainlog, "User terminated transcode")
    /\ main' = "exit"
    /\ UNCHANGED <<pl, run, prev, args, files, common_prefix, fs, dirs, log, succeeded,
                   launched, published>>

----------------------------------------------------------------------------

Next ==
    \/ CheckPrograms
    \/ EnsureOutputDirectory
    \/ MapAsync
    \/ GetResult
    \/ GetRaises
    \/ KeyboardInterrupt
    \/ \E f \in files : Dispatch(f)
    \/ \E f \in files : CopyEnsureDirectory(f)
    \/ \E f \in files : Copy(f)
    \/ \E f \in files : EnsureOutfileDirectory(f)
    \/ \E f \in files : TranscodeEntry(f)
    \/ \E f \in files : Popen(f)
    \/ \E f \in files : LameWrite(f)
    \/ \E f \in files : LameWait(f)
    \/ \E f \in files : Link(f)
    \/ \E f \in files : CloseTemp(f)

Spec == Init /\ [][Next]_vars

----------------------------------------------------------------------------
(* The same batch run again *)

\* how the task of f ended: transcode returned 0 or None ("ok"), lame exited
\* nonzero ("failed"), the worker was terminated between launching the
\* encoder and linking the temp file ("interrupted"), or anything else
Outcome(f) ==
    IF pc[f] = "killed" /\ f \in launched /\ f \notin published
    THEN "interrupted"
    ELSE IF log[f] = <<"Failed to transcode">> THEN "failed"
    ELSE IF log[f] \in {<<"Transcoded">>, <<"Did not transcode">>} THEN "ok"
    ELSE "other"

\* the program, run with --skip-existing, exited and is started again with
\* the same arguments on the same files; the disk is as the first run left it
\* (temp files left behind have names of their own and no later run reads
\* them)
RunAgain ==
    /\ run = "first"
    /\ main = "exit"
    /\ args.skip_existing
    /\ run' = "second"
    /\ prev' = [exit |-> exitCode, outcome |-> [f \in files |-> Outcome(f)]]
    /\ args' = args
    /\ main' = "programs"
    /\ pc' = [f \in files |-> "found"]
    /\ tmp' = [f \in files |-> "none"]
    /\ retval' = [f \in files |-> None]
    /\ log' = [f \in files |-> <<>>]
    /\ mainlog' = <<>>
    /\ succeeded' = FALSE
    /\ terminated' = FALSE
    /\ exitCode' = None
    /\ launched' = {}
    /\ published' = {}
    /\ UNCHANGED <<pl, files, common_prefix, fs, dirs>>

NextTwice ==
    \/ Next
    \/ RunAgain

\* the batches that are run twice have at most MaxRerunFiles files
InitTwice == Init /\ Cardinality(files) <= MaxRerunFiles

SpecTwice == InitTwice /\ [][NextTwice]_vars


----------------------------------------------------------------------------
(* The pipeline of one transcode, lines 131-140, in detail: the processes *)
(* flac and lame, the pipe between them and the task that set them up      *)

\* the variables the pipeline leaves alone
others == <<run, prev, args, files, common_prefix, fs, dirs, main, pc, tmp,
            retval, log, mainlog, succeeded, terminated, exitCode, launched,
            published>>

\* line 133: p_flac = sp.Popen(flac_args, stdout=sp.PIPE); the task holds the
\* read end of the pipe, flac has todo blocks to write
PopenFlac ==
    /\ pl.task = "idle"
    /\ \E n \in 0..MaxData :
         pl' = [pl EXCEPT !.task = "flac", !.flac = "run", !.todo = n,
                          !.readers = {"task"}]
    /\ UNCHANGED others

\* line 134: p_lame = sp.Popen(lame_args, stdin=p_flac.stdout, ...); lame
\* holds the read end as its stdin
PopenLame ==
    /\ pl.task = "flac"
    /\ pl' = [pl EXCEPT !.task = "lame", !.lame = "run",
                        !.readers = @ \cup {"lame"}]
    /\ UNCHANGED others

\* a faulty line 137: the task keeps its reference to the read end
KeepFlacStdout ==
    /\ pl.task = "lame"
    /\ pl' = [pl EXCEPT !.task = "wait"]
    /\ UNCHANGED others

\* line 137: p_flac.stdout.close()
CloseFlacStdout ==
    /\ pl.task = "lame"
    /\ pl' = [pl EXCEPT !.task = "wait", !.readers = @ \ {"task"}]
    /\ UNCHANGED others

\* line 140: retval = p_lame.wait() returns once lame has exited; flac is
\* not waited for
WaitLame ==
    /\ pl.task = "wait"
    /\ pl.lame = "exit"
    /\ pl' = [pl EXCEPT !.task = "returned", !.retval = pl.rcLame]
    /\ UNCHANGED others

\* flac is inside a write to the full pipe
FlacBlocked ==
    /\ pl.flac = "run"
    /\ pl.todo > 0
    /\ pl.readers # {}
    /\ pl.buffer = PipeSize

\* flac writes a block to the pipe; with the pipe full it blocks
FlacWrite ==
    /\ pl.flac = "run"
    /\ pl.todo > 0
    /\ pl.readers # {}
    /\ pl.buffer < PipeSize
    /\ pl' = [pl EXCEPT !.buffer = @ + 1, !.todo = @ - 1]
    /\ UNCHANGED others

\* flac writes to the pipe when no read end is open: it is killed by SIGPIPE
\* or, the signal ignored, fails with EPIPE
FlacBrokenPipe ==
    /\ pl.flac = "run"
    /\ pl.todo > 0
    /\ pl.readers = {}
    /\ \E rc \in {Code(-13), Code(1)} :
         pl' = [pl EXCEPT !.flac = "exit", !.rcFlac = rc]
    /\ UNCHANGED others

\* flac has written everything and exits with 0
FlacFinish ==
    /\ pl.flac = "run"
    /\ pl.todo = 0
    /\ pl' = [pl EXCEPT !.flac = "exit", !.rcFlac = Code(0)]
    /\ UNCHANGED others

\* flac exits with an error of its own (a damaged input file)
FlacFail ==
    /\ pl.flac = "run"
    /\ ~FlacBlocked
    /\ pl' = [pl EXCEPT !.flac = "exit", !.rcFlac = Code(1)]
    /\ UNCHANGED others

\* lame reads a block from its stdin
LameRead ==
    /\ pl.lame = "run"
    /\ pl.buffer > 0
    /\ pl' = [pl EXCEPT !.buffer = @ - 1, !.encoded = @ + 1]
    /\ UNCHANGED others

\* lame reaches the end of its input (the pipe empty and flac, the only
\* writer, gone) and exits; its stdin is closed
LameFinish ==
    /\ pl.lame = "run"
    /\ pl.buffer = 0
    /\ pl.flac = "exit"
    /\ \E rc \in {Code(0), Code(1)} :
         pl' = [pl EXCEPT !.lame = "exit", !.rcLame = rc,
                          !.readers = @ \ {"lame"}]
    /\ UNCHANGED others

\* lame exits early with an error; its stdin is closed
LameFail ==
    /\ pl.lame = "run"
    /\ pl' = [pl EXCEPT !.lame = "exit", !.rcLame = Code(1),
                        !.readers = @ \ {"lame"}]
    /\ UNCHANGED others

\* the steps the task and the processes take whenever they can
PipeProgress ==
    \/ PopenLame
    \/ CloseFlacStdout
    \/ WaitLame
    \/ FlacWrite
    \/ FlacBrokenPipe
    \/ FlacFinish
    \/ LameRead
    \/ LameFinish

NextPipe ==
    \/ PopenFlac
    \/ PopenLame
    \/ CloseFlacStdout
    \/ WaitLame
    \/ FlacWrite
    \/ FlacBrokenPipe
    \/ FlacFinish
    \/ FlacFail
    \/ LameRead
    \/ LameFinish
    \/ LameFail

\* one transcode of one FLAC file, its pipeline about to be set up
InitPipe ==
    /\ Init
    /\ files = {1}
    /\ args = [output_dir |-> None, skip_existing |-> FALSE,
               copy_pattern |-> None]
    /\ \A p \in Paths : fs[p] = "none"

\* the task and the two processes are scheduled as long as they can run;
\* nothing obliges a process to fail
SpecPipe == InitPipe /\ [][NextPipe]_vars /\ WF_vars(PipeProgress)

----------------------------------------------------------------------------
(* Properties *)

\* transcode returned None for f at line 101
Skipped(f) == log[f] = <<"Did not transcode">>

\* C1: at every moment of a transcode (before the encoder starts, while it
\* writes, after it fails, after an interrupt) the destination path holds
\* nothing, the file that was there before the run, or the fully encoded
\* output; never a partially written file.
C1_NoPartialDestination ==
    \A f \in files : IsFlac(f) => fs[path(f).target] \in {"none", "old", "enc"}

\* C1 witness: the run was interrupted while the encoder of f was running; its
\* temp file is left behind and the destination of f holds nothing
C1_Witness ==
    \E f \in files :
        /\ exitCode = Code(3)
        /\ pc[f] = "killed"
        /\ f \in launched
        /\ tmp[f] = "left"
        /\ fs[path(f).target] = "none"

\* C2: transcode publishes the temp file to the destination if and only if
\* the encoder exited with code zero.
C2_PublishedIffEncoderZero ==
    \A f \in files :
        (retval[f] # None /\ pc[f] \in {"close", "done", "raised"})
            => (f \in published <=> retval[f] = Code(0))

\* C3: with skip-existing enabled and the sanitized destination existing,
\* transcode returns None at once: no temp file, no decoder or encoder, and
\* the existing destination file stays as it is from then on.
C3_SkipExistingUntouched ==
    [][\A f \in files :
         /\ (/\ pc[f] = "transcode"
             /\ args.skip_existing
             /\ exists(path(f).target)
             /\ pc'[f] \notin {"transcode", "killed"})
                => (Skipped(f)' /\ tmp'[f] = "none" /\ fs' = fs)
         /\ (IsFlac(f) /\ Skipped(f))
                => /\ fs'[path(f).target] = fs[path(f).target]
                   /\ tmp'[f] = "none"
                   /\ f \notin launched'
                   /\ f \notin published']_vars

\* C3 witness: a file whose destination existed before the run was skipped and
\* the run completed with the old file in place
C3_Witness ==
    \E f \in files :
        /\ args.skip_existing
        /\ log[f] = <<"Did not transcode">>
        /\ fs[path(f).target] = "old"
        /\ f \notin launched
        /\ exitCode = Code(0)


\* the task of f is over: it returned, raised, or its worker was terminated
Ended(f) == pc[f] \in {"done", "raised", "killed"}

\* the run ended without a missing program and without an interrupt
EndedUninterrupted == main = "exit" /\ ~terminated /\ exitCode # Code(1)

\* C4: the temp file of a transcode is released on every exit path: once the
\* task has ended (normally, by encoder failure, by the pool's termination or
\* by an error) no temp file of it remains.
C4_TempReleased ==
    \A f \in files : Ended(f) => tmp[f] = "none"

\* C5: with more files than workers and no cancellation, every file is
\* processed and its outcome is logged exactly once.
C5_AllReportedOnce ==
    (EndedUninterrupted /\ NumThreads < Cardinality(files))
        => \A f \in files : pc[f] = "done" /\ Len(log[f]) = 1

\* C6: no error escapes the processing of one file: no task raises into the
\* pool and the coordinator's wait never raises.
C6_NoErrorEscapes ==
    /\ \A f \in files : pc[f] # "raised"
    /\ exitCode # Code(4)

\* C7: without a setup error and without an interrupt the exit code is 0,
\* whatever happened to the individual files.
C7_ExitZeroWithoutInterrupt ==
    EndedUninterrupted => exitCode = Code(0)

\* C8: an interrupt during the wait cancels the pool and ends the run with
\* status Terminated and exit code 3; every destination committed before it is
\* still in place, and the tasks that had not started are not processed.
C8_InterruptTerminates ==
    [][(main = "wait" /\ terminated')
         => /\ main' = "exit"
            /\ exitCode' = Code(3)
            /\ ~succeeded'
            /\ fs' = fs
            /\ \A f \in files :
                 /\ f \in published => fs'[path(f).target] = "enc"
                 /\ pc[f] = "queued"
                      => /\ pc'[f] = "dropped"
                         /\ log'[f] = <<>>
                         /\ tmp'[f] = "none"
                         /\ f \notin launched']_vars

\* C8 witness: the run was interrupted with one file committed, one in a
\* worker and one still queued
C8_Witness ==
    /\ exitCode = Code(3)
    /\ terminated
    /\ \E f, g, h \in files :
         /\ f \in published /\ fs[path(f).target] = "enc"
         /\ pc[g] = "killed"
         /\ pc[h] = "dropped" /\ log[h] = <<>>

\* C9: with skip_existing False and a file at the destination, a transcode
\* whose encoder exits with zero overwrites it: the destination holds the new
\* encoding and transcode returns.
C9_OverwritesExisting ==
    \A f \in files :
        (/\ ~args.skip_existing
         /\ retval[f] = Code(0)
         /\ pc[f] \in {"close", "done", "raised"}
         /\ fs[path(f).target] # "none")
            => (f \in published /\ fs[path(f).target] = "enc" /\ pc[f] # "raised")

\* C10: a file whose destination directory could not be created (for another
\* reason than its existing) is reported as Failed.  Stated for the case in
\* which the output directory itself exists and the directory is the one the
\* temp file goes to.
C10_DirectoryFailureReported ==
    \A f \in files :
        (/\ IsFlac(f)
         /\ args.output_dir # None
         /\ args.output_dir \in dirs
         /\ pc[f] \in {"done", "raised"}
         /\ path(f).outdir = path(f).tempdir
         /\ path(f).outdir \notin dirs)
            => log[f] = <<"Failed to transcode">>

\* the output directory could not be created (line 242 logged it)
OutputDirFailed ==
    \E i \in 1..Len(mainlog) : mainlog[i] = "Couldn't create directory"

\* C11: when the output directory cannot be created the run aborts with exit
\* code 2 before any work item is handed to the pool.
C11_OutputDirFailureFatal ==
    OutputDirFailed
        => /\ \A f \in files : pc[f] = "found"
           /\ main # "wait"
           /\ exitCode \in {None, Code(2)}

\* C12: a missing required program ends the run with exit code 1 before the
\* pool exists and before any item is dispatched; no file or directory is
\* created, changed or deleted, then or afterwards.
C12_MissingProgramExits ==
    [][/\ exitCode' = Code(1)
          => /\ main' = "exit"
             /\ fs' = fs /\ dirs' = dirs
             /\ \A f \in files : pc'[f] = "found" /\ tmp'[f] = "none"
             /\ launched' = {} /\ published' = {}
       /\ exitCode = Code(1) => UNCHANGED vars]_vars

\* C12 witness: the run ended with exit code 1 having logged the missing
\* programs, nothing dispatched
C12_Witness ==
    /\ exitCode = Code(1)
    /\ main = "exit"
    /\ mainlog = <<"programs are required">>
    /\ \A f \in files : pc[f] = "found"

CopyConfigured(f) ==
    /\ args.output_dir # None
    /\ args.copy_pattern # None
    /\ PatternMatches(args.copy_pattern, Source(f))

\* C14: a non-FLAC file is never transcoded; with output directory, copy
\* pattern and a matching path it is copied to its re-rooted destination and
\* reported as Copied, otherwise reported as Skipped; no error arises and no
\* decoder or encoder is launched.
C14_NonFlacCopiedOrSkipped ==
    \A f \in files :
        ~IsFlac(f)
            => /\ f \notin launched
               /\ pc[f] # "raised"
               /\ pc[f] = "done"
                    => IF CopyConfigured(f)
                       THEN log[f] = <<"Copied">> /\ fs[path(f).copydest] = "copy"
                       ELSE log[f] = <<"Skipped">>

\* C14 as amended: a non-FLAC file is never transcoded (no temp file, no
\* decoder or encoder, no return code); without output directory, pattern or
\* match it is reported as Skipped; otherwise it is reported as Copied with
\* the copy in place, or, when creating the directory or copying fails, as
\* failed to copy, or the task raises.
C14_NonFlacNeverTranscoded ==
    \A f \in files :
        ~IsFlac(f)
            => /\ f \notin launched /\ f \notin published
               /\ tmp[f] = "none" /\ retval[f] = None
               /\ pc[f] = "raised" => CopyConfigured(f)
               /\ pc[f] = "done"
                    => IF CopyConfigured(f)
                       THEN \/ /\ log[f] = <<"Copied">>
                               /\ fs[path(f).copydest] = "copy"
                            \/ log[f] = <<"Failed to copy">>
                       ELSE log[f] = <<"Skipped">>

\* C14 witness: a non-FLAC file matching the pattern was copied under the
\* output directory and the run completed
C14_Witness ==
    \E f \in files :
        /\ ~IsFlac(f)
        /\ log[f] = <<"Copied">>
        /\ fs[path(f).copydest] = "copy"
        /\ exitCode = Code(0)

\* the task of f is inside transcode, between resolving its destination and
\* the end of the with block
InTranscode(f) == pc[f] \in {"transcode", "mktemp", "wait", "link", "close"}

\* C15: no two dispatched items resolve to the same destination path, so two
\* workers are never inside transcode for the same destination.
C15_DestinationsDistinct ==
    \A f, g \in files :
        (f # g /\ InTranscode(f) /\ InTranscode(g))
            => path(f).target # path(g).target

\* C16: once the interrupt handler has terminated the pool no task begins: no
\* queued item is taken by a worker, no temp file is created and no decoder
\* or encoder is launched.
C16_NoStartAfterTerminate ==
    [][terminated
         => /\ launched' = launched
            /\ \A f \in files :
                 /\ Busy(f)' => Busy(f)
                 /\ tmp[f] = "none" => tmp'[f] = "none"
                 /\ pc[f] = "dropped" => pc'[f] = "dropped"]_vars

\* C16 witness: the pool was terminated with one task running its encoder and
\* another still in the queue, which was dropped and has launched nothing
C16_Witness ==
    /\ terminated
    /\ main = "exit"
    /\ \E g, h \in files :
         /\ pc[g] = "killed" /\ g \in launched
         /\ pc[h] = "dropped" /\ h \notin launched /\ tmp[h] = "none"

\* C17: the task closes its reference to the pipe after launching lame and
\* waits for lame only: its result is lame's exit code whatever flac's is,
\* and once lame has exited flac terminates too (by broken pipe if it still
\* has data to write) instead of blocking on the full pipe for ever.
C17_PipelineEnds ==
    /\ [](pl.task = "returned" => pl.retval = pl.rcLame)
    /\ (pl.lame = "exit") ~> (pl.flac = "exit")

\* C17 witness: lame exited early with an error, flac with data left was ended
\* by the broken pipe, and the task returned lame's code
C17_Witness ==
    /\ pl.task = "returned"
    /\ pl.retval = Code(1)
    /\ pl.flac = "exit"
    /\ pl.rcFlac = Code(-13)
    /\ pl.todo > 0

\* C18: an item whose destination did not exist before a first attempt that
\* was interrupted or whose encoder failed is not skipped by the later run
\* with skip-existing: it is transcoded again.
C18_FailedItemRetried ==
    run = "second"
        => \A f \in files :
             (/\ IsFlac(f)
              /\ prev.outcome[f] \in {"failed", "interrupted"}
              /\ fs[path(f).target] # "old")
                => ~Skipped(f)

\* C19: with an output directory, when transcode creates its temp file the
\* directory of the sanitized destination exists, for every source path:
\* once the worker has ensured (found or made) the directory of outfile, the
\* directory the temp file goes to exists.
C19_TempDirectoryEnsured ==
    \A f \in files :
        (/\ args.output_dir # None
         /\ pc[f] = "mktemp"
         /\ path(f).outdir \in dirs)
            => path(f).tempdir \in dirs

\* the lines of the coordinator's log that report a final status
StatusLines ==
    {i \in 1..Len(mainlog) :
        mainlog[i] \in {"Completed transcode", "User terminated transcode",
                        "Transcode failed"}}

\* C20: the coordinator reaches exactly one final status: Completed (exit 0)
\* only with the whole map result obtained, no item queued or in flight;
\* Terminated (exit 3) only after an interrupt; Failed (exit 4) only when the
\* wait on the pool raised another exception.
C20_OneFinalStatus ==
    /\ Cardinality(StatusLines) <= 1
    /\ main = "exit"
         => /\ exitCode \in {Code(0), Code(1), Code(3), Code(4)}
            /\ exitCode # Code(1) => Cardinality(StatusLines) = 1
    /\ exitCode = Code(0)
         => /\ succeeded
            /\ \A f \in files : pc[f] = "done"
            /\ mainlog[Len(mainlog)] = "Completed transcode"
    /\ exitCode = Code(3)
         => /\ terminated /\ ~succeeded
            /\ mainlog[Len(mainlog)] = "User terminated transcode"
    /\ exitCode = Code(4)
         => /\ ~terminated /\ ~succeeded
            /\ \E f \in files : pc[f] = "raised"
            /\ mainlog[Len(mainlog)] = "Transcode failed"

\* C20 witness: a batch of more files than workers completed: every task
\* returned and the coordinator reported Completed
C20_Witness ==
    /\ exitCode = Code(0)
    /\ succeeded
    /\ Cardinality(files) > NumThreads
    /\ \A f \in files : pc[f] = "done"
    /\ Cardinality(StatusLines) = 1

====
